---- MODULE Spec2Model ----
(***************************************************************************)
(* Model of the filter library of opencv-playground (src/src/filter.cpp).  *)
(*                                                                         *)
(* A cv::Mat is a record [rows, cols, type, data]; data is the row-major   *)
(* pixel store, data[y * cols + x + 1] being the pixel (y, x), and a pixel *)
(* is the triple <<blue, green, red>> (channel k of the code is index      *)
(* k + 1).  Every filter is an operator from its arguments to the record   *)
(* [ret, dst] the call leaves behind; one action per filter applies it to  *)
(* the source image drawn by Init.                                         *)
(***************************************************************************)
EXTENDS Integers, Sequences, FiniteSets

\* ------------------------------------------------------------------------
\* Bounds of the image family
\* ------------------------------------------------------------------------
MaxRows == 5
MaxCols == 6

BaseVals == {10, 100, 127, 200}
StepsX   == {0, 7}
StepsY   == {0, 30}
StepsK   == {0, 37}

\* ------------------------------------------------------------------------
\* cv::Mat
\* ------------------------------------------------------------------------
EmptyMat == [rows |-> 0, cols |-> 0, type |-> "none", data |-> << >>]

empty(m) == m.rows * m.cols = 0

Idx(m, y, x) == y * m.cols + x + 1

RowOf(m, i) == (i - 1) \div m.cols

ColOf(m, i) == (i - 1) % m.cols

\* src.clone() / src.copyTo(dst): a deep copy; copying an empty matrix
\* releases the destination.
copyTo(m) == IF empty(m) THEN EmptyMat ELSE m

clone(m) == copyTo(m)

\* a matrix of h x w pixels of type t holding the pixels d
MatOf(h, w, t, d) == [rows |-> h, cols |-> w, type |-> t, data |-> d]

uchar(v) == v % 256

MinI(a, b) == IF a < b THEN a ELSE b

MaxI(a, b) == IF a > b THEN a ELSE b

\* the image handed to the library: h x w pixels, channel k of pixel (y, x)
\* being base + sx*x + sy*y + sk*k reduced to 8 bits
Image(h, w, base, sx, sy, sk) ==
    IF h * w = 0
    THEN [rows |-> h, cols |-> w, type |-> "8UC3", data |-> << >>]
    ELSE MatOf(h, w, "8UC3",
               [i \in 1..(h * w) |->
                  [k \in 1..3 |->
                     uchar(base + sx * ((i - 1) % w) + sy * ((i - 1) \div w)
                           + sk * (k - 1))]])

\* a destination buffer that already holds an image of another size
StaleMat == MatOf(2, 2, "8UC3", [i \in 1..4 |-> <<9, 9, 9>>])

\* ------------------------------------------------------------------------
\* greyscale  (filter.cpp:20-44)
\* ------------------------------------------------------------------------
greyscalePixel_mutB(p) == <<255 - p[1], 255 - p[1], 255 - p[1]>>

greyscalePixel(p) == <<255 - p[3], 255 - p[3], 255 - p[3]>>

greyscale(s, d) ==
    IF empty(s) THEN [ret |-> -1, dst |-> d]
    ELSE [ret |-> 0,
          dst |-> [clone(s) EXCEPT !.data =
                     [i \in DOMAIN s.data |-> greyscalePixel(s.data[i])]]]

\* ------------------------------------------------------------------------
\* sepiaTone  (filter.cpp:56-90); the coefficients are held in thousandths
\* and the double-to-uchar conversion truncates.  The thousandths give the
\* value the double arithmetic gives wherever the exact sum is not a whole
\* number, which is the case of every non-black pixel of Images.
\* ------------------------------------------------------------------------
sepiaChannel_mutRound(cr, cg, cb, p) ==
    MinI(255, (cr * p[3] + cg * p[2] + cb * p[1] + 500) \div 1000)

sepiaChannel(cr, cg, cb, p) ==
    MinI(255, (cr * p[3] + cg * p[2] + cb * p[1]) \div 1000)

sepiaPixel(p) ==
    <<sepiaChannel(272, 534, 131, p),
      sepiaChannel(349, 686, 168, p),
      sepiaChannel(393, 769, 189, p)>>

sepiaTone(s, d) ==
    IF empty(s) THEN [ret |-> -1, dst |-> d]
    ELSE [ret |-> 0,
          dst |-> [clone(s) EXCEPT !.data =
                     [i \in DOMAIN s.data |-> sepiaPixel(s.data[i])]]]

\* ------------------------------------------------------------------------
\* negativeFilter  (filter.cpp:722-744)
\* ------------------------------------------------------------------------
negativeChannel_mutOff(v) == uchar(256 - v)

negativeChannel(v) == uchar(255 - v)

negativeFilter(s, d) ==
    IF empty(s) THEN [ret |-> -1, dst |-> d]
    ELSE [ret |-> 0,
          dst |-> [copyTo(s) EXCEPT !.data =
                     [i \in DOMAIN s.data |->
                        [k \in 1..3 |-> negativeChannel(s.data[i][k])]]]]

\* ------------------------------------------------------------------------
\* adjustBrightness  (filter.cpp:689-711); the factor is the rational
\* f[1] / f[2] with f[2] > 0, and the clamped double is truncated on store
\* ------------------------------------------------------------------------
\* truncation toward zero of n / d, d > 0
TruncDiv(n, d) == IF n >= 0 THEN n \div d ELSE -((-n) \div d)

brightChannel_mutWrap(v, f) == uchar(TruncDiv(v * f[1], f[2]))

brightChannel(v, f) ==
    IF v * f[1] < 0 THEN 0
    ELSE IF v * f[1] > 255 * f[2] THEN 255
    ELSE TruncDiv(v * f[1], f[2])

adjustBrightness(s, d, f) ==
    IF empty(s) THEN [ret |-> -1, dst |-> d]
    ELSE [ret |-> 0,
          dst |-> [copyTo(s) EXCEPT !.data =
                     [i \in DOMAIN s.data |->
                        [k \in 1..3 |-> brightChannel(s.data[i][k], f)]]]]

\* ------------------------------------------------------------------------
\* Convolution helpers.  A tap is <<dy, dx, weight>>; a tap list is the
\* sequence of the terms a filter adds up for one channel of one pixel.
\* ------------------------------------------------------------------------
RECURSIVE SumTaps(_, _, _, _, _, _)
\* the weighted sum of taps n..Len(taps) of channel k around pixel (y, x);
\* a tap is read at the address row pointer + column, as ptr[x + dx] does
SumTaps(taps, n, m, y, x, k) ==
    IF n > Len(taps) THEN 0
    ELSE taps[n][3] * m.data[Idx(m, y + taps[n][1], x + taps[n][2])][k]
         + SumTaps(taps, n + 1, m, y, x, k)

RECURSIVE SumWeights(_, _)
SumWeights(taps, n) ==
    IF n > Len(taps) THEN 0 ELSE taps[n][3] + SumWeights(taps, n + 1)

Conv(taps, div, m, y, x) ==
    [k \in 1..3 |-> uchar(SumTaps(taps, 1, m, y, x, k) \div div)]

Interior(m, hw, y, x) ==
    /\ y >= hw /\ y < m.rows - hw
    /\ x >= hw /\ x < m.cols - hw

\* ------------------------------------------------------------------------
\* blur5x5_1  (filter.cpp:102-146)
\* ------------------------------------------------------------------------
kernel5x5 ==
    << <<1, 2, 4, 2, 1>>,
       <<2, 4, 8, 4, 2>>,
       <<4, 8, 16, 8, 4>>,
       <<2, 4, 8, 4, 2>>,
       <<1, 2, 4, 2, 1>> >>

kernelSum5x5 == 100

Taps1 ==
    [n \in 1..25 |->
       <<((n - 1) \div 5) - 2, ((n - 1) % 5) - 2,
         kernel5x5[((n - 1) \div 5) + 1][((n - 1) % 5) + 1]>>]

blur5x5_1(s, d) ==
    IF empty(s) THEN [ret |-> -1, dst |-> d]
    ELSE [ret |-> 0,
          dst |-> [clone(s) EXCEPT !.data =
                     [i \in DOMAIN s.data |->
                        IF Interior(s, 2, RowOf(s, i), ColOf(s, i))
                        THEN Conv(Taps1, kernelSum5x5, s, RowOf(s, i), ColOf(s, i))
                        ELSE s.data[i]]]]

\* ------------------------------------------------------------------------
\* blur5x5_2  (filter.cpp:158-222)
\* ------------------------------------------------------------------------
kernel1x5 == <<1, 2, 4, 2, 1>>

kernelSum1x5 == 10

Taps2H == [n \in 1..5 |-> <<0, n - 3, kernel1x5[n]>>]

Taps2V == [n \in 1..5 |-> <<n - 3, 0, kernel1x5[n]>>]

\* temp: zeros, then the horizontal pass over columns 2..cols-3 of every row
blur5x5_2_temp_mutNoDiv(s) ==
    [s EXCEPT !.data =
       [i \in DOMAIN s.data |->
          IF ColOf(s, i) >= 2 /\ ColOf(s, i) < s.cols - 2
          THEN Conv(Taps2H, 1, s, RowOf(s, i), ColOf(s, i))
          ELSE <<0, 0, 0>>]]

blur5x5_2_temp(s) ==
    [s EXCEPT !.data =
       [i \in DOMAIN s.data |->
          IF ColOf(s, i) >= 2 /\ ColOf(s, i) < s.cols - 2
          THEN Conv(Taps2H, kernelSum1x5, s, RowOf(s, i), ColOf(s, i))
          ELSE <<0, 0, 0>>]]

blur5x5_2(s, d) ==
    IF empty(s) THEN [ret |-> -1, dst |-> d]
    ELSE [ret |-> 0,
          dst |-> [clone(s) EXCEPT !.data =
                     [i \in DOMAIN s.data |->
                        IF RowOf(s, i) >= 2 /\ RowOf(s, i) < s.rows - 2
                        THEN Conv(Taps2V, kernelSum1x5, blur5x5_2_temp(s),
                                  RowOf(s, i), ColOf(s, i))
                        ELSE s.data[i]]]]

\* ------------------------------------------------------------------------
\* blur5x5_3  (filter.cpp:236-282): the terms of lines 261-272, in order
\* ------------------------------------------------------------------------
Taps3 ==
    << <<-2, -2, 1>>, <<-2, -1, 2>>, <<-2, 0, 4>>, <<-2, 1, 2>>, <<-2, 2, 1>>,
       <<-1, -2, 2>>, <<-1, -1, 4>>, <<-1, 0, 8>>, <<-1, 1, 4>>, <<-1, 2, 2>>,
       <<0, -2, 4>>, <<0, -1, 8>>, <<0, 0, 16>>, <<0, 1, 8>>, <<0, 2, 4>>,
       <<1, -2, 2>>, <<1, -1, 4>>, <<1, 0, 8>>, <<1, 1, 4>>, <<1, 2, 2>>,
       <<2, -2, 1>>, <<2, -1, 2>>, <<2, 0, 4>>, <<2, 1, 2>> >>

Divisor3 == 100

blur5x5_3(s, d) ==
    IF empty(s) THEN [ret |-> -1, dst |-> d]
    ELSE [ret |-> 0,
          dst |-> [clone(s) EXCEPT !.data =
                     [i \in DOMAIN s.data |->
                        IF Interior(s, 2, RowOf(s, i), ColOf(s, i))
                        THEN Conv(Taps3, Divisor3, s, RowOf(s, i), ColOf(s, i))
                        ELSE s.data[i]]]]

\* ------------------------------------------------------------------------
\* blur5x5_4  (filter.cpp:296-346): sumOne..sumFive of lines 325-334; there
\* is no emptiness test
\* ------------------------------------------------------------------------
Taps4 ==
    << <<-2, -2, 1>>, <<-2, -1, 2>>, <<-2, 0, 4>>, <<-2, 1, 2>>, <<-2, 2, 1>>,
       <<-1, -2, 2>>, <<-1, -1, 4>>, <<-1, 0, 8>>, <<-1, 1, 4>>, <<-1, 2, 2>>,
       <<0, -2, 4>>, <<0, -1, 8>>, <<0, 0, 16>>, <<0, 1, 8>>, <<0, 2, 4>>,
       <<1, -2, 2>>, <<1, -1, 4>>, <<1, 0, 8>>, <<1, 1, 4>>, <<1, 2, 2>>,
       <<2, -2, 1>>, <<2, -1, 2>>, <<2, 0, 4>>, <<2, 1, 2>>, <<2, 2, 1>> >>

Divisor4 == 100

blur5x5_4(s, d) ==
    [ret |-> 0,
     dst |-> IF empty(s) THEN copyTo(s)
             ELSE [copyTo(s) EXCEPT !.data =
                     [i \in DOMAIN s.data |->
                        IF Interior(s, 2, RowOf(s, i), ColOf(s, i))
                        THEN Conv(Taps4, Divisor4, s, RowOf(s, i), ColOf(s, i))
                        ELSE s.data[i]]]]

\* ------------------------------------------------------------------------
\* blur5x5_5  (filter.cpp:360-402): no emptiness test.  The first pass reads
\* src and writes dst; the second pass reads and writes dst in place, pixel
\* after pixel, through the row pointer of dst: ptr[x - 2] .. ptr[x + 2].
\* ------------------------------------------------------------------------
Taps5 ==
    << <<0, -2, 1>>, <<0, -1, 2>>, <<0, 0, 4>>, <<0, 1, 2>>, <<0, 2, 1>> >>

Divisor5 == 10

blur5x5_5_pass1(s) ==
    [copyTo(s) EXCEPT !.data =
       [i \in DOMAIN s.data |->
          IF ColOf(s, i) >= 2 /\ ColOf(s, i) < s.cols - 2
          THEN Conv(Taps5, Divisor5, s, RowOf(s, i), ColOf(s, i))
          ELSE s.data[i]]]

RECURSIVE blur5x5_5_pass2(_, _, _)
\* the loop of lines 385-399 from pixel i to pixel last, in memory order
blur5x5_5_pass2(m, i, last) ==
    IF i > last THEN m
    ELSE blur5x5_5_pass2(
             [m EXCEPT !.data[i] =
                Conv(Taps5, Divisor5, m, RowOf(m, i), ColOf(m, i))],
             i + 1, last)

blur5x5_5(s, d) ==
    [ret |-> 0,
     dst |-> IF empty(s) THEN copyTo(s)
             ELSE blur5x5_5_pass2(blur5x5_5_pass1(s),
                                  Idx(s, 2, 0), Idx(s, s.rows - 3, s.cols - 1))]

\* ------------------------------------------------------------------------
\* gauss3x3at  (filter.cpp:413-443): no emptiness test
\* ------------------------------------------------------------------------
TapsGauss ==
    << <<-1, -1, 1>>, <<-1, 0, 2>>, <<-1, 1, 1>>,
       <<0, -1, 2>>, <<0, 0, 4>>, <<0, 1, 2>>,
       <<1, -1, 1>>, <<1, 0, 2>>, <<1, 1, 1>> >>

DivisorGauss == 16

gauss3x3at(s, d) ==
    [ret |-> 0,
     dst |-> IF empty(s) THEN copyTo(s)
             ELSE [copyTo(s) EXCEPT !.data =
                     [i \in DOMAIN s.data |->
                        IF Interior(s, 1, RowOf(s, i), ColOf(s, i))
                        THEN Conv(TapsGauss, DivisorGauss, s, RowOf(s, i), ColOf(s, i))
                        ELSE s.data[i]]]]

\* ------------------------------------------------------------------------
\* sobelX3x3 / sobelY3x3  (filter.cpp:455-528).  dst.create() leaves a
\* matrix of the requested size and type alone and otherwise allocates
\* storage that nobody initialises: g is what that storage happens to hold.
\* ------------------------------------------------------------------------
\* static_cast<short>(sum)
short_mutUchar(v) == v % 256

short(v) == ((v + 32768) % 65536) - 32768

create(d, h, w, t, g) ==
    IF d.rows = h /\ d.cols = w /\ d.type = t THEN d
    ELSE MatOf(h, w, t, [i \in 1..(h * w) |-> <<g, g, g>>])

TapsSobelX ==
    << <<-1, -1, -1>>, <<0, -1, -2>>, <<1, -1, -1>>,
       <<-1, 1, 1>>, <<0, 1, 2>>, <<1, 1, 1>> >>

TapsSobelY ==
    << <<-1, -1, -1>>, <<-1, 0, -2>>, <<-1, 1, -1>>,
       <<1, -1, 1>>, <<1, 0, 2>>, <<1, 1, 1>> >>

sobel_mutTwice(taps, s, d, g) ==
    IF empty(s) THEN [ret |-> -1, dst |-> d]
    ELSE [ret |-> 0,
          dst |-> [create(d, s.rows, s.cols, "16SC3", g) EXCEPT !.data =
                     [i \in DOMAIN s.data |->
                        IF Interior(s, 1, RowOf(s, i), ColOf(s, i))
                        THEN [k \in 1..3 |->
                                short(2 * SumTaps(taps, 1, s, RowOf(s, i), ColOf(s, i), k))]
                        ELSE create(d, s.rows, s.cols, "16SC3", g).data[i]]]]

sobel(taps, s, d, g) ==
    IF empty(s) THEN [ret |-> -1, dst |-> d]
    ELSE [ret |-> 0,
          dst |-> [create(d, s.rows, s.cols, "16SC3", g) EXCEPT !.data =
                     [i \in DOMAIN s.data |->
                        IF Interior(s, 1, RowOf(s, i), ColOf(s, i))
                        THEN [k \in 1..3 |->
                                short(SumTaps(taps, 1, s, RowOf(s, i), ColOf(s, i), k))]
                        ELSE create(d, s.rows, s.cols, "16SC3", g).data[i]]]]

sobelX3x3(s, d, g) == sobel(TapsSobelX, s, d, g)

sobelY3x3(s, d, g) == sobel(TapsSobelY, s, d, g)

\* ------------------------------------------------------------------------
\* magnitude  (filter.cpp:541-592)
\* ------------------------------------------------------------------------
RECURSIVE IsqrtIn(_, _, _)
\* the largest r in lo..hi with r * r <= n
IsqrtIn(n, lo, hi) ==
    IF lo >= hi THEN lo
    ELSE LET mid == (lo + hi + 1) \div 2
         IN  IF mid * mid <= n THEN IsqrtIn(n, mid, hi)
             ELSE IsqrtIn(n, lo, mid - 1)

Isqrt(n) == IsqrtIn(n, 0, 65536)

\* int sum = sqrt(pow(a, 2) + pow(b, 2)); ptrDst[x][k] = sum;  the sum of
\* squares of two shorts is exact in a double and its root is truncated by
\* the conversion to int, then the int is narrowed to an unsigned char
magnitudeChannel_mutClamp(a, b) == MinI(255, Isqrt(a * a + b * b))

magnitudeChannel(a, b) == uchar(Isqrt(a * a + b * b))

magnitude(gx, gy, d) ==
    IF empty(gx) \/ empty(gy) THEN [ret |-> -1, dst |-> d]
    ELSE [ret |-> 0,
          dst |-> MatOf(gx.rows, gx.cols, "8UC3",
                        [i \in DOMAIN gx.data |->
                           [k \in 1..3 |->
                              magnitudeChannel(gx.data[i][k], gy.data[i][k])]])]

\* magnitude(src, dst): sobelX and sobelY are fresh local matrices
magnitudeSrc_mutSame(s, d, g1, g2) ==
    magnitude(sobelX3x3(s, EmptyMat, g1).dst, sobelX3x3(s, EmptyMat, g2).dst, d)

magnitudeSrc(s, d, g1, g2) ==
    magnitude(sobelX3x3(s, EmptyMat, g1).dst, sobelY3x3(s, EmptyMat, g2).dst, d)

\* ------------------------------------------------------------------------
\* blurQuantize  (filter.cpp:605-632).  Lines 624-626 copy the element into
\* the local `pixel`, quantize the copy and drop it: the element of dst
\* keeps the blurred value.
\* ------------------------------------------------------------------------
\* trunc(trunc(v / (255 / levels)) * (255 / levels)), levels > 0
quantized(v, levels) == (((v * levels) \div 255) * 255) \div levels

blurQuantizeElement(v, levels) ==
    LET pixel == uchar(quantized(v, levels)) IN v

blurQuantize(s, d, levels) ==
    IF empty(s) THEN [ret |-> -1, dst |-> d]
    ELSE [ret |-> 0,
          dst |-> [blur5x5_5(s, d).dst EXCEPT !.data =
                     [i \in DOMAIN s.data |->
                        [k \in 1..3 |->
                           blurQuantizeElement(blur5x5_5(s, d).dst.data[i][k], levels)]]]]

\* ------------------------------------------------------------------------
\* embossEffect  (filter.cpp:645-677)
\* ------------------------------------------------------------------------
\* int val = dirX * sx + dirY * sy + offset with dirX = dirY = 0.7071f: two
\* float products, two float sums, each rounded, and the conversion to int
\* truncates.  In ten-thousandths the value below is the same int for every
\* pair of shorts (the roundings never carry the sum across a whole number).
embossChannel_mutWrap(a, b) ==
    uchar(TruncDiv(7071 * a + 7071 * b + 128 * 10000, 10000))

embossChannel(a, b) ==
    MinI(MaxI(TruncDiv(7071 * a + 7071 * b + 128 * 10000, 10000), 0), 255)

embossEffect(gx, gy, d) ==
    IF empty(gx) \/ empty(gy) THEN [ret |-> -1, dst |-> d]
    ELSE [ret |-> 0,
          dst |-> MatOf(gx.rows, gx.cols, "8UC3",
                        [i \in DOMAIN gx.data |->
                           [k \in 1..3 |->
                              embossChannel(gx.data[i][k], gy.data[i][k])]])]

\* ------------------------------------------------------------------------
\* State: one caller holding a source image, a destination buffer and a
\* gradient pair, calling the library.
\* ------------------------------------------------------------------------
VARIABLES
    src,        \* the image handed to the filters
    orig,       \* the image the caller started from
    dst,        \* the destination buffer of the 8-bit filters
    sx,         \* destination of sobelX3x3, first source of magnitude/emboss
    sy,         \* destination of sobelY3x3, second source of magnitude/emboss
    before,     \* the destination buffer as it was when the last call began
    op,         \* the last filter called ("none" before the first call)
    arg,        \* the scalar parameter of the last call as <<numerator,
                \* denominator>> (<<0, 1>> when the filter has none; for
                \* sobelX3x3 / sobelY3x3, <<g, 1>> with g what the storage
                \* allocated by dst.create() held)
    ret,        \* the status the last call returned
    given,      \* the source buffers of the last call as they were when it
                \* began (<<src>>, or <<sx, sy>> for magnitude and emboss)
    pc,         \* timeBlur.cpp main: the statement it is at ("none" when the
                \* caller is not the benchmark)
    variant,    \* timeBlur.cpp: the blur variant being timed, 0 before the first
    iter,       \* timeBlur.cpp: the loop counter i
    clock,      \* the wall clock gettimeofday reads, in ticks
    startTime,  \* timeBlur.cpp: startTime
    endTime,    \* timeBlur.cpp: endTime
    difference, \* timeBlur.cpp: difference, as <<numerator, denominator>>
    events,     \* what main has done so far: calls, lines printed, files written
    files,      \* the image files written: blur_1.jpg .. blur_5.jpg (EmptyMat
                \* while not written); tested.jpg or the latest screen capture
    frame,      \* imgDisplay.cpp / vidDisplay.cpp: the frame shown
    held,       \* the frame as it was when the last step of a display loop began
    stage,      \* the statement a display program is at ("none" when the
                \* caller is not a display program)
    flags,      \* vidDisplay.cpp: the filter booleans
    brightness, \* vidDisplay.cpp: brightness, in tenths
    choices     \* imgDisplay.cpp: how many menu choices have been made

timerVars ==
    <<pc, variant, iter, clock, startTime, endTime, difference, events>>

benchVars ==
    <<pc, variant, iter, clock, startTime, endTime, difference, events, files>>

dispVars == <<frame, held, stage, flags, brightness, choices>>

vars ==
    <<src, orig, dst, sx, sy, before, op, arg, ret, given, pc, variant, iter,
      clock, startTime, endTime, difference, events, files, frame, held,
      stage, flags, brightness, choices>>

\* the variables of the benchmark when the caller is not the benchmark
NoBench ==
    /\ pc = "none"
    /\ variant = 0
    /\ iter = 0
    /\ clock = 0
    /\ startTime = 0
    /\ endTime = 0
    /\ difference = <<0, 1>>
    /\ events = << >>
    /\ files = << >>

\* vidDisplay.cpp:103-113: every filter boolean false
NoFlags ==
    [gray |-> FALSE, altGray |-> FALSE, sepia |-> FALSE, blur |-> FALSE,
     sobelX |-> FALSE, sobelY |-> FALSE, gradientMagnitude |-> FALSE,
     blurQuantized |-> FALSE, faceDetect |-> FALSE, emboss |-> FALSE,
     negative |-> FALSE]

\* the variables of the display programs when the caller is not one of them
NoDisplay ==
    /\ frame = EmptyMat
    /\ held = EmptyMat
    /\ stage = "none"
    /\ flags = NoFlags
    /\ brightness = 10
    /\ choices = 0

Garbage == {0, 77}

Levels == {2, 10}

\* brightness factors <<numerator, denominator>>
Factors == {<<-1, 1>>, <<0, 1>>, <<1, 2>>, <<1, 1>>, <<3, 2>>, <<2, 1>>}

Images ==
    {Image(h, w, b, stx, sty, stk) :
        h \in 0..MaxRows, w \in 0..MaxCols, b \in BaseVals,
        stx \in StepsX, sty \in StepsY, stk \in StepsK}

Init ==
    /\ src \in Images
    /\ orig = src
    /\ dst \in {EmptyMat, StaleMat}
    /\ sx = EmptyMat
    /\ sy = EmptyMat
    /\ before = dst
    /\ op = "none"
    /\ arg = <<0, 1>>
    /\ ret = 0
    /\ given = << >>
    /\ NoBench
    /\ NoDisplay

\* the buffer the store statements of the filter called name address: every
\* filter writes through dst.at / dst.ptr (blur5x5_2 also through temp), and
\* dst never shares storage with a source (clone, copyTo, create)
StoreTarget_mutSrc(name) == IF name = "greyscale" THEN "src" ELSE "dst"

StoreTarget(name) == "dst"

\* the source buffer s after the call of the filter called name that left r
SourceAfter_mutShared(name, s, r) ==
    IF (StoreTarget(name) = "src" \/ name = "blur5x5_2") /\ r.ret = 0
    THEN [s EXCEPT !.data = r.dst.data]
    ELSE s

SourceAfter(name, s, r) ==
    IF StoreTarget(name) = "src" /\ r.ret = 0
    THEN [s EXCEPT !.data = r.dst.data]
    ELSE s

\* a call of an 8-bit filter on (src, dst)
Call(name, a, r) ==
    /\ op = "none"
    /\ op' = name
    /\ arg' = a
    /\ ret' = r.ret
    /\ dst' = r.dst
    /\ before' = dst
    /\ given' = <<src>>
    /\ src' = SourceAfter(name, src, r)
    /\ UNCHANGED <<orig, sx, sy>>
    /\ UNCHANGED benchVars
    /\ UNCHANGED dispVars

Greyscale == Call("greyscale", <<0, 1>>, greyscale(src, dst))

SepiaTone == Call("sepiaTone", <<0, 1>>, sepiaTone(src, dst))

Blur5x5_1 == Call("blur5x5_1", <<0, 1>>, blur5x5_1(src, dst))

Blur5x5_2 == Call("blur5x5_2", <<0, 1>>, blur5x5_2(src, dst))

Blur5x5_3 == Call("blur5x5_3", <<0, 1>>, blur5x5_3(src, dst))

Blur5x5_4 == Call("blur5x5_4", <<0, 1>>, blur5x5_4(src, dst))

Blur5x5_5 == Call("blur5x5_5", <<0, 1>>, blur5x5_5(src, dst))

Gauss3x3at == Call("gauss3x3at", <<0, 1>>, gauss3x3at(src, dst))

BlurQuantize == \E l \in Levels : Call("blurQuantize", <<l, 1>>, blurQuantize(src, dst, l))

AdjustBrightness ==
    \E f \in Factors : Call("adjustBrightness", f, adjustBrightness(src, dst, f))

NegativeFilter == Call("negativeFilter", <<0, 1>>, negativeFilter(src, dst))

MagnitudeSrc ==
    \E g1 \in Garbage, g2 \in Garbage :
        Call("magnitudeSrc", <<0, 1>>, magnitudeSrc(src, dst, g1, g2))

\* the menu loop of imgDisplay.cpp:122-128 choosing the negative again: the
\* filtered image has become the frame and is filtered once more
NegativeFilterAgain ==
    /\ op = "negativeFilter"
    /\ ret = 0
    /\ src' = SourceAfter("negativeFilter", dst, negativeFilter(dst, dst))
    /\ op' = "negativeFilterAgain"
    /\ ret' = negativeFilter(dst, dst).ret
    /\ dst' = negativeFilter(dst, dst).dst
    /\ before' = dst
    /\ given' = <<dst>>
    /\ UNCHANGED <<orig, sx, sy, arg>>
    /\ UNCHANGED benchVars
    /\ UNCHANGED dispVars

SobelX3x3 ==
    /\ op = "none"
    /\ \E g \in Garbage :
          /\ ret' = sobelX3x3(src, sx, g).ret
          /\ sx' = sobelX3x3(src, sx, g).dst
          /\ src' = SourceAfter("sobelX3x3", src, sobelX3x3(src, sx, g))
          /\ arg' = <<g, 1>>
    /\ op' = "sobelX3x3"
    /\ before' = sx
    /\ given' = <<src>>
    /\ UNCHANGED <<orig, dst, sy>>
    /\ UNCHANGED benchVars
    /\ UNCHANGED dispVars

SobelY3x3 ==
    /\ op \in {"none", "sobelX3x3"}
    /\ \E g \in Garbage :
          /\ ret' = sobelY3x3(src, sy, g).ret
          /\ sy' = sobelY3x3(src, sy, g).dst
          /\ src' = SourceAfter("sobelY3x3", src, sobelY3x3(src, sy, g))
          /\ arg' = <<g, 1>>
    /\ op' = "sobelY3x3"
    /\ before' = sy
    /\ given' = <<src>>
    /\ UNCHANGED <<orig, dst, sx>>
    /\ UNCHANGED benchVars
    /\ UNCHANGED dispVars

GradientCall(name, r) ==
    /\ op \in {"none", "sobelX3x3", "sobelY3x3"}
    /\ op' = name
    /\ ret' = r.ret
    /\ dst' = r.dst
    /\ before' = dst
    /\ given' = <<sx, sy>>
    /\ sx' = SourceAfter(name, sx, r)
    /\ sy' = SourceAfter(name, sy, r)
    /\ UNCHANGED <<src, orig, arg>>
    /\ UNCHANGED benchVars
    /\ UNCHANGED dispVars

Magnitude == GradientCall("magnitude", magnitude(sx, sy, dst))

EmbossEffect == GradientCall("embossEffect", embossEffect(sx, sy, dst))

Next ==
    \/ Greyscale
    \/ SepiaTone
    \/ Blur5x5_1
    \/ Blur5x5_2
    \/ Blur5x5_3
    \/ Blur5x5_4
    \/ Blur5x5_5
    \/ Gauss3x3at
    \/ SobelX3x3
    \/ SobelY3x3
    \/ Magnitude
    \/ MagnitudeSrc
    \/ BlurQuantize
    \/ EmbossEffect
    \/ AdjustBrightness
    \/ NegativeFilter
    \/ NegativeFilterAgain

Spec == Init /\ [][Next]_vars

\* ------------------------------------------------------------------------
\* Vocabulary of the properties
\* ------------------------------------------------------------------------
BlurOps == {"blur5x5_1", "blur5x5_2", "blur5x5_3", "blur5x5_4", "blur5x5_5"}

GradientOps == {"magnitude", "embossEffect"}

\* the result of the blur variant called name
BlurBy(name, s, d) ==
    CASE name = "blur5x5_1" -> blur5x5_1(s, d)
      [] name = "blur5x5_2" -> blur5x5_2(s, d)
      [] name = "blur5x5_3" -> blur5x5_3(s, d)
      [] name = "blur5x5_4" -> blur5x5_4(s, d)
      [] name = "blur5x5_5" -> blur5x5_5(s, d)

\* half-width of the kernel of a blur filter
HalfWidth(name) == IF name = "gauss3x3at" THEN 1 ELSE 2

\* the weighted sums a normalizing filter forms, each with the divisor the
\* code applies to it
Normalization(name) ==
    CASE name = "blur5x5_1" -> << [taps |-> Taps1, div |-> kernelSum5x5] >>
      [] name = "blur5x5_2" -> << [taps |-> Taps2H, div |-> kernelSum1x5],
                                  [taps |-> Taps2V, div |-> kernelSum1x5] >>
      [] name = "blur5x5_3" -> << [taps |-> Taps3, div |-> Divisor3] >>
      [] name = "blur5x5_4" -> << [taps |-> Taps4, div |-> Divisor4] >>
      [] name = "blur5x5_5" -> << [taps |-> Taps5, div |-> Divisor5],
                                  [taps |-> Taps5, div |-> Divisor5] >>
      [] name = "gauss3x3at" -> << [taps |-> TapsGauss, div |-> DivisorGauss] >>

\* the buffer the last call wrote to
DstOf(name) ==
    IF name = "sobelX3x3" THEN sx ELSE IF name = "sobelY3x3" THEN sy ELSE dst

\* the last call was given an empty input
EmptyInput ==
    IF op \in GradientOps THEN empty(sx) \/ empty(sy) ELSE empty(src)

InteriorIdx(m, hw) ==
    {i \in DOMAIN m.data : Interior(m, hw, RowOf(m, i), ColOf(m, i))}

BorderIdx(m, hw) == DOMAIN m.data \ InteriorIdx(m, hw)

Uniform(m, v) == \A i \in DOMAIN m.data : m.data[i] = <<v, v, v>>

\* the source buffers of the last call
SourcesOf(name) == IF name \in GradientOps THEN <<sx, sy>> ELSE <<src>>

\* the destination buffers a caller may hand to a filter
DstBuffers == {EmptyMat, StaleMat}

\* the last call made once more, on the sources and the parameter it was
\* given, with the destination buffer d and storage holding g1 (g2 for the
\* second matrix a filter allocates)
Recall(d, g1, g2) ==
    CASE op = "greyscale" -> greyscale(given[1], d)
      [] op = "sepiaTone" -> sepiaTone(given[1], d)
      [] op \in BlurOps -> BlurBy(op, given[1], d)
      [] op = "gauss3x3at" -> gauss3x3at(given[1], d)
      [] op = "sobelX3x3" -> sobelX3x3(given[1], d, g1)
      [] op = "sobelY3x3" -> sobelY3x3(given[1], d, g1)
      [] op = "magnitude" -> magnitude(given[1], given[2], d)
      [] op = "magnitudeSrc" -> magnitudeSrc(given[1], d, g1, g2)
      [] op = "blurQuantize" -> blurQuantize(given[1], d, arg[1])
      [] op = "embossEffect" -> embossEffect(given[1], given[2], d)
      [] op = "adjustBrightness" -> adjustBrightness(given[1], d, arg)
      [] op \in {"negativeFilter", "negativeFilterAgain"} ->
            negativeFilter(given[1], d)

\* ------------------------------------------------------------------------
\* Properties
\* ------------------------------------------------------------------------

\* C1: on a non-empty source the five blur variants give the same value in
\* every channel of every interior pixel (2 <= x <= W-3, 2 <= y <= H-3):
\* whichever variant was called, its interior output is that of each other
\* variant on the same source.
C1_BlurVariantsAgreeInterior ==
    (op \in BlurOps /\ ~empty(src)) =>
        \A name \in BlurOps : \A i \in InteriorIdx(src, 2) :
            dst.data[i] = BlurBy(name, src, before).dst.data[i]

\* C2: border pass-through: after blur5x5_1..5 (half-width 2) or gauss3x3at
\* (half-width 1) every destination pixel within the half-width of an edge
\* equals the source pixel at the same coordinates.
C2_BorderPassThrough ==
    (op \in BlurOps \cup {"gauss3x3at"} /\ ~empty(src)) =>
        \A i \in BorderIdx(src, HalfWidth(op)) : dst.data[i] = src.data[i]

\* C3: every filter called with an empty input returns -1 and leaves its
\* destination buffer as it was.
C3_EmptyInputFails ==
    (op # "none" /\ EmptyInput) => (ret = -1 /\ DstOf(op) = before)

\* C4: on a source whose every channel is 100, each blur variant leaves 100
\* in every channel of every interior pixel.
C4_UniformStaysUniform ==
    (op \in BlurOps /\ ~empty(src) /\ Uniform(src, 100)) =>
        \A i \in InteriorIdx(src, 2) : dst.data[i] = <<100, 100, 100>>

\* C5: in every normalizing convolution filter the divisor applied to a
\* weighted sum equals the sum of the weights used in that sum.
C5_DivisorIsWeightSum ==
    (op \in BlurOps \cup {"gauss3x3at"} /\ InteriorIdx(src, HalfWidth(op)) # {}) =>
        \A n \in DOMAIN Normalization(op) :
            Normalization(op)[n].div = SumWeights(Normalization(op)[n].taps, 1)

\* C6: negativeFilter sets every channel to 255 minus its source value, and
\* applying it to its own output gives back the image the caller started
\* from, in size and in every channel of every pixel.
C6_NegativeInvolution ==
    /\ (op \in {"negativeFilter", "negativeFilterAgain"} /\ ret = 0) =>
          /\ dst.rows = src.rows /\ dst.cols = src.cols
          /\ \A i \in DOMAIN src.data : \A k \in 1..3 :
                dst.data[i][k] = 255 - src.data[i][k]
    /\ (op = "negativeFilterAgain" /\ ret = 0) =>
          /\ dst.rows = orig.rows /\ dst.cols = orig.cols
          /\ dst.data = orig.data

C6_Witness ==
    /\ op = "negativeFilterAgain" /\ ret = 0
    /\ orig.rows = 5 /\ orig.cols = 6
    /\ orig.data[1] = <<200, 237, 18>>
    /\ src.data[1] = <<55, 18, 237>>
    /\ dst.data[1] = <<200, 237, 18>>

\* C7: every output pixel of greyscale has three equal channels, the common
\* value being 255 minus the red channel (index 2) of the source pixel.
C7_GreyscaleFromRed ==
    (op = "greyscale" /\ ret = 0) =>
        /\ dst.rows = src.rows /\ dst.cols = src.cols
        /\ \A i \in DOMAIN src.data : \A k \in 1..3 :
              dst.data[i][k] = 255 - src.data[i][3]

C7_Witness ==
    /\ op = "greyscale" /\ ret = 0
    /\ \E i \in DOMAIN src.data :
          /\ src.data[i] = <<200, 237, 18>>
          /\ dst.data[i] = <<237, 237, 237>>

\* C8: adjustBrightness stores in every channel the source value times the
\* factor arg[1]/arg[2], clamped into [0,255] (the integer part of it, never
\* a wrapped value): 200 times 2.0 gives 255, a negative factor gives 0.
C8_BrightnessClamped ==
    (op = "adjustBrightness" /\ ret = 0) =>
        \A i \in DOMAIN src.data : \A k \in 1..3 :
            LET v == src.data[i][k]
                o == dst.data[i][k]
            IN  /\ o \in 0..255
                /\ (v * arg[1] >= 255 * arg[2]) => o = 255
                /\ (v * arg[1] <= 0) => o = 0
                /\ (v * arg[1] > 0 /\ v * arg[1] < 255 * arg[2]) =>
                      (o * arg[2] <= v * arg[1] /\ v * arg[1] < (o + 1) * arg[2])
                /\ (v = 200 /\ arg = <<2, 1>>) => o = 255
                /\ (arg[1] < 0) => o = 0

C8_Witness ==
    /\ op = "adjustBrightness" /\ ret = 0 /\ arg = <<2, 1>>
    /\ \E i \in DOMAIN src.data :
          /\ src.data[i] = <<200, 237, 18>>
          /\ dst.data[i] = <<255, 255, 36>>

\* C9 as stated: sepiaTone turns the pixel B=10, G=10, R=10 into
\* B=10, G=10, R=10.
C9_SepiaKeepsTen ==
    (op = "sepiaTone" /\ ret = 0) =>
        \A i \in DOMAIN src.data :
            src.data[i] = <<10, 10, 10>> => dst.data[i] = <<10, 10, 10>>

\* C9 amended: sepiaTone turns the pixel B=10, G=10, R=10 into B=9, G=12,
\* R=13: each output channel is its sepia-matrix row applied to the source
\* pixel, capped at 255 and truncated to a whole number.
C9_SepiaTruncates ==
    (op = "sepiaTone" /\ ret = 0) =>
        \A i \in DOMAIN src.data :
            LET p == src.data[i]
                o == dst.data[i]
                rowB == 272 * p[3] + 534 * p[2] + 131 * p[1]
                rowG == 349 * p[3] + 686 * p[2] + 168 * p[1]
                rowR == 393 * p[3] + 769 * p[2] + 189 * p[1]
                Trunc(row, c) ==
                    IF row >= 255000 THEN c = 255
                    ELSE c * 1000 <= row /\ row < (c + 1) * 1000
            IN  /\ Trunc(rowB, o[1]) /\ Trunc(rowG, o[2]) /\ Trunc(rowR, o[3])
                /\ p = <<10, 10, 10>> => o = <<9, 12, 13>>

C9_Witness ==
    /\ op = "sepiaTone" /\ ret = 0
    /\ \E i \in DOMAIN src.data :
          src.data[i] = <<10, 10, 10>> /\ dst.data[i] = <<9, 12, 13>>

\* C10: after blurQuantize returns 0 every channel of every dst pixel is the
\* floor of the quantization bucket of its blurred value v, that is
\* trunc(trunc(v / (255/levels)) * (255/levels)); 127 becomes 102 with
\* levels = 10.
C10_QuantizedToBucketFloor ==
    (op = "blurQuantize" /\ ret = 0) =>
        \A i \in DOMAIN src.data : \A k \in 1..3 :
            dst.data[i][k] = quantized(blur5x5_5(src, before).dst.data[i][k], arg[1])

C12_ReferentiallyTransparent ==
    (op # "none" /\ ret = 0) =>
        \A d \in DstBuffers : \A g1 \in Garbage : \A g2 \in Garbage :
            Recall(d, g1, g2) = [ret |-> ret, dst |-> DstOf(op)]

\* C13: magnitude(sx, sy, dst) stores in every channel of every pixel the
\* floor of the square root of sx^2 + sy^2 reduced modulo 256: a norm above
\* 255 wraps around, it is not clamped.
C13_MagnitudeWraps ==
    (op = "magnitude" /\ ret = 0) =>
        \A i \in DOMAIN dst.data : \A k \in 1..3 :
            LET n == given[1].data[i][k] * given[1].data[i][k]
                     + given[2].data[i][k] * given[2].data[i][k]
                v == dst.data[i][k]
            IN  /\ v \in 0..255
                /\ \E j \in 0..5 :
                      /\ (v + 256 * j) * (v + 256 * j) <= n
                      /\ n < (v + 256 * j + 1) * (v + 256 * j + 1)

C13_Witness ==
    /\ op = "magnitude" /\ ret = 0
    /\ dst.rows = 3 /\ dst.cols = 3
    /\ sx.data[5] = <<0, 0, 0>>
    /\ sy.data[5] = <<240, 240, -784>>
    /\ dst.data[5] = <<240, 240, 16>>

\* ------------------------------------------------------------------------
\* embossEffect on arbitrary gradient pairs: the caller hands it two 16SC3
\* matrices of one pixel holding any signed 16-bit values
\* ------------------------------------------------------------------------
Shorts ==
    {-32768, -1020, -977, -182, -181, -99, -1, 0, 1, 99, 179, 180, 977,
     1020, 32767}

Gradients == {MatOf(1, 1, "16SC3", <<<<v, v, v>>>>) : v \in Shorts}

InitEmboss ==
    /\ src = EmptyMat
    /\ orig = EmptyMat
    /\ dst \in DstBuffers
    /\ sx \in Gradients
    /\ sy \in Gradients
    /\ before = dst
    /\ op = "none"
    /\ arg = <<0, 1>>
    /\ ret = 0
    /\ given = << >>
    /\ NoBench
    /\ NoDisplay

NextEmboss == EmbossEffect

SpecEmboss == InitEmboss /\ [][NextEmboss]_vars

\* C14: embossEffect(sx, sy, dst) sets every channel of every dst pixel to
\* 0.7071*sx + 0.7071*sy + 128 truncated toward zero and clamped into
\* [0,255]; for every pair of signed 16-bit values the stored result lies in
\* [0,255], and it is 128 when sx = sy = 0.
C14_EmbossClamped ==
    (op = "embossEffect" /\ ret = 0) =>
        \A i \in DOMAIN dst.data : \A k \in 1..3 :
            LET a == given[1].data[i][k]
                b == given[2].data[i][k]
                x == 7071 * a + 7071 * b + 1280000
                v == dst.data[i][k]
            IN  /\ v \in 0..255
                /\ (x < 10000) => v = 0
                /\ (x >= 2550000) => v = 255
                /\ (x >= 10000 /\ x < 2550000) =>
                      (v * 10000 <= x /\ x < (v + 1) * 10000)
                /\ (a = 0 /\ b = 0) => v = 128

C14_Witness ==
    /\ op = "embossEffect" /\ ret = 0
    /\ sx.data[1] = <<-32768, -32768, -32768>>
    /\ sy.data[1] = <<32767, 32767, 32767>>
    /\ dst.data[1] = <<127, 127, 127>>

\* channel k of the pixel in row y, column x of m
PixelAt(m, y, x, k) == m.data[Idx(m, y, x)][k]

\* C15: sobelX3x3 and sobelY3x3 write exactly the pixels with 1 <= x <= W-2
\* and 1 <= y <= H-2: each channel is the un-normalized kernel sum (X: right
\* column minus left column, Y: bottom row minus top row, weights 1,2,1) as
\* a signed 16-bit value; every pixel of the 1-pixel border of dst is what
\* the buffer held before the loops ran.
C15_SobelWritesInterior ==
    (op \in {"sobelX3x3", "sobelY3x3"} /\ ret = 0) =>
        LET s == given[1]
            out == DstOf(op)
            kept == before.rows = s.rows /\ before.cols = s.cols
                    /\ before.type = "16SC3"
        IN  /\ out.rows = s.rows /\ out.cols = s.cols /\ out.type = "16SC3"
            /\ \A y \in 0..(s.rows - 1) : \A x \in 0..(s.cols - 1) : \A k \in 1..3 :
                  LET v == PixelAt(out, y, x, k) IN
                  IF 1 <= x /\ x <= s.cols - 2 /\ 1 <= y /\ y <= s.rows - 2
                  THEN /\ v \in -32768..32767
                       /\ op = "sobelX3x3" =>
                            v = (PixelAt(s, y - 1, x + 1, k) + 2 * PixelAt(s, y, x + 1, k)
                                 + PixelAt(s, y + 1, x + 1, k))
                                - (PixelAt(s, y - 1, x - 1, k) + 2 * PixelAt(s, y, x - 1, k)
                                   + PixelAt(s, y + 1, x - 1, k))
                       /\ op = "sobelY3x3" =>
                            v = (PixelAt(s, y + 1, x - 1, k) + 2 * PixelAt(s, y + 1, x, k)
                                 + PixelAt(s, y + 1, x + 1, k))
                                - (PixelAt(s, y - 1, x - 1, k) + 2 * PixelAt(s, y - 1, x, k)
                                   + PixelAt(s, y - 1, x + 1, k))
                  ELSE v = IF kept THEN PixelAt(before, y, x, k) ELSE arg[1]

C15_Witness ==
    /\ op = "sobelX3x3" /\ ret = 0
    /\ sx.rows = 3 /\ sx.cols = 3
    /\ src.data[4] = <<200, 200, 200>>
    /\ src.data[6] = <<214, 214, 214>>
    /\ src.data[1] = <<200, 200, 200>>
    /\ src.data[7] = <<200, 200, 200>>
    /\ sx.data[5] = <<56, 56, 56>>
    /\ sx.data[1] = <<77, 77, 77>>

\* ------------------------------------------------------------------------
\* timeBlur.cpp: main reads the image, then times the five blur variants
\* one after the other.  Time is counted in ticks of the wall clock; a blur
\* call and an imwrite each take one of Durations.
\* ------------------------------------------------------------------------
Ntimes == 10

Variants == 5

Durations == {1, 2}

\* what cv::imread returns: an image, or an empty matrix (data == NULL)
\* when the file cannot be read
BenchImages ==
    {Image(5, 6, 10, 7, 30, 37), EmptyMat}

BlurName(k) ==
    CASE k = 1 -> "blur5x5_1"
      [] k = 2 -> "blur5x5_2"
      [] k = 3 -> "blur5x5_3"
      [] k = 4 -> "blur5x5_4"
      [] k = 5 -> "blur5x5_5"

\* double getTime()
getTime == clock

\* the loop condition i < Ntimes
LoopContinues_mutOff(n) == n <= Ntimes

LoopContinues(n) == n < Ntimes

InitBench ==
    /\ src \in BenchImages
    /\ orig = src
    /\ dst = EmptyMat
    /\ sx = EmptyMat
    /\ sy = EmptyMat
    /\ before = EmptyMat
    /\ op = "none"
    /\ arg = <<0, 1>>
    /\ ret = 0
    /\ given = << >>
    /\ pc = "start"
    /\ variant = 0
    /\ iter = 0
    /\ clock = 0
    /\ startTime = 0
    /\ endTime = 0
    /\ difference = <<0, 1>>
    /\ events = << >>
    /\ files = [k \in 1..Variants |-> EmptyMat]
    /\ NoDisplay

\* timeBlur.cpp:55-59: src.data == NULL
Unreadable ==
    /\ pc = "start"
    /\ variant = 0
    /\ empty(src)
    /\ pc' = "exit"
    /\ events' = Append(events, <<"unable to read", 0>>)
    /\ UNCHANGED <<src, orig, dst, sx, sy, before, op, arg, ret, given>>
    /\ UNCHANGED <<variant, iter, clock, startTime, endTime, difference, files>>
    /\ UNCHANGED dispVars

\* startTime = getTime(); and the loop initialisation i = 0
StartTimer ==
    /\ pc = "start"
    /\ ~empty(src)
    /\ variant' = variant + 1
    /\ startTime' = getTime
    /\ iter' = 0
    /\ pc' = "loop"
    /\ UNCHANGED <<src, orig, dst, sx, sy, before, op, arg, ret, given>>
    /\ UNCHANGED <<clock, endTime, difference, events, files>>
    /\ UNCHANGED dispVars

\* one iteration of the loop: the blur call, whose status is dropped, and
\* the line it prints
Iterate ==
    /\ pc = "loop"
    /\ LoopContinues(iter)
    /\ LET r == BlurBy(BlurName(variant), src, dst)
       IN  /\ ret' = r.ret
           /\ dst' = r.dst
           /\ src' = SourceAfter(BlurName(variant), src, r)
    /\ op' = BlurName(variant)
    /\ arg' = <<0, 1>>
    /\ before' = dst
    /\ given' = <<src>>
    /\ events' = events \o << <<"call", variant>>, <<"finished", variant>> >>
    /\ iter' = iter + 1
    /\ \E d \in Durations : clock' = clock + d
    /\ UNCHANGED <<orig, sx, sy>>
    /\ UNCHANGED <<pc, variant, startTime, endTime, difference, files>>
    /\ UNCHANGED dispVars

\* the loop is left and cv::imwrite("blur_k.jpg", dst) runs
WriteImage ==
    /\ pc = "loop"
    /\ ~LoopContinues(iter)
    /\ files' = [files EXCEPT ![variant] = dst]
    /\ events' = Append(events, <<"imwrite", variant>>)
    /\ \E d \in Durations : clock' = clock + d
    /\ pc' = "stop"
    /\ UNCHANGED <<src, orig, dst, sx, sy, before, op, arg, ret, given>>
    /\ UNCHANGED <<variant, iter, startTime, endTime, difference>>
    /\ UNCHANGED dispVars

\* endTime = getTime(); difference = (endTime - startTime) / Ntimes; the two
\* printf; after variant 5, "Terminating" and return
Report ==
    /\ pc = "stop"
    /\ endTime' = getTime
    /\ difference' = <<getTime - startTime, Ntimes>>
    /\ events' = events \o << <<"time per image", variant>>, <<"total time", variant>> >>
    /\ pc' = IF variant < Variants THEN "start" ELSE "exit"
    /\ UNCHANGED <<src, orig, dst, sx, sy, before, op, arg, ret, given>>
    /\ UNCHANGED <<variant, iter, clock, startTime, files>>
    /\ UNCHANGED dispVars

NextBench ==
    \/ Unreadable
    \/ StartTimer
    \/ Iterate
    \/ WriteImage
    \/ Report

SpecBench == InitBench /\ [][NextBench]_vars

\* what one variant adds to events when it is called n times
EventsOf(k, n) ==
    [j \in 1..(2 * n) |-> IF j % 2 = 1 THEN <<"call", k>> ELSE <<"finished", k>>]
    \o << <<"imwrite", k>>, <<"time per image", k>>, <<"total time", k>> >>

IsPrefix(a, b) == Len(a) <= Len(b) /\ a = SubSeq(b, 1, Len(a))

\* C16: in one run of the benchmark on a readable image the variants are
\* exercised in the order 1,2,3,4,5 without interleaving: variant k is called
\* exactly 10 times, then its image is written once, then its per-call time
\* and its total time are reported, all before the first call of variant
\* k+1; the per-call time reported is the total elapsed time divided by 10.
C16_VariantsInOrder ==
    (pc # "none" /\ ~empty(orig)) =>
        LET all == EventsOf(1, 10) \o EventsOf(2, 10) \o EventsOf(3, 10)
                   \o EventsOf(4, 10) \o EventsOf(5, 10)
        IN  /\ IsPrefix(events, all)
            /\ pc = "exit" => events = all
            /\ (variant >= 1 /\ pc \in {"start", "exit"}) =>
                  /\ events[Len(events)] = <<"total time", variant>>
                  /\ difference = <<endTime - startTime, 10>>
                  /\ endTime - startTime >= 10

C16_Witness ==
    /\ pc = "exit"
    /\ variant = 5
    /\ Len(events) = 115
    /\ events[93] = <<"call", 5>>
    /\ events[92] = <<"total time", 4>>
    /\ orig.rows = 5
    /\ difference = <<17, 10>>
    /\ files[5] = dst

\* the variants that form the full two-dimensional sum
Full2D == {"blur5x5_1", "blur5x5_3", "blur5x5_4"}

\* the variants that make two one-dimensional passes
Separable == {"blur5x5_2", "blur5x5_5"}

\* C19: for every non-empty source blur5x5_1, blur5x5_3 and blur5x5_4 leave
\* destinations equal in every channel of every pixel, each interior value
\* being floor(sum of the 25 neighbours weighted by the kernel rows
\* (1,2,4,2,1),(2,4,8,4,2),(4,8,16,8,4),(2,4,8,4,2),(1,2,4,2,1), over 100).
C19_Full2DAgree ==
    (op \in Full2D /\ ~empty(given[1])) =>
        /\ \A name \in Full2D : BlurBy(name, given[1], before).dst = dst
        /\ \A i \in InteriorIdx(given[1], 2) :
              dst.data[i] = Conv(Taps1, 100, given[1], RowOf(dst, i), ColOf(dst, i))

\* C20: for every non-empty source blur5x5_5 gives the value blur5x5_2 gives
\* in every channel of every interior pixel, both being a horizontal 1x5
\* pass followed by a vertical 1x5 pass over the result of the horizontal
\* pass.
C20_SeparableAgree ==
    (op \in Separable /\ ~empty(given[1])) =>
        \A i \in InteriorIdx(given[1], 2) :
            /\ blur5x5_5(given[1], before).dst.data[i]
                 = blur5x5_2(given[1], before).dst.data[i]
            /\ dst.data[i] = blur5x5_2(given[1], before).dst.data[i]

\* ------------------------------------------------------------------------
\* The display programs.  Their frames are a few pixels wide: the text
\* cv::putText draws (imgDisplay.cpp:135 at column 100, row 400;
\* vidDisplay.cpp:264 above the bottom edge by more than the text height)
\* lies outside such a frame and is clipped away.
\* ------------------------------------------------------------------------
MaxChoices == 3

putText(m) == m

\* the test applied to the status a filter returned before its destination
\* becomes the frame
Accepted_mutNot(r) == r # 0

Accepted(r) == r = 0

\* ------------------------------------------------------------------------
\* imgDisplay.cpp: main reads an image and filters it as the menu says
\* ------------------------------------------------------------------------
ShownImages ==
    {Image(5, 5, 10, 0, 30, 37), Image(3, 3, 200, 7, 30, 37), EmptyMat}

InitImg ==
    /\ src \in ShownImages
    /\ orig = src
    /\ dst = EmptyMat
    /\ sx = EmptyMat
    /\ sy = EmptyMat
    /\ before = EmptyMat
    /\ op = "none"
    /\ arg = <<0, 1>>
    /\ ret = 0
    /\ given = << >>
    /\ NoBench
    /\ frame = EmptyMat
    /\ held = EmptyMat
    /\ stage = "read"
    /\ flags = NoFlags
    /\ brightness = 10
    /\ choices = 0

\* imgDisplay.cpp:73-79: exit when the image was not read, else
\* src.copyTo(frame)
ImgRead ==
    /\ stage = "read"
    /\ stage' = IF empty(src) THEN "exit" ELSE "menu"
    /\ frame' = copyTo(src)
    /\ UNCHANGED <<src, orig, dst, sx, sy, before, op, arg, ret, given>>
    /\ UNCHANGED benchVars
    /\ UNCHANGED <<held, flags, brightness, choices>>

\* imgDisplay.cpp:140-161: the key read once the frame is shown: 'q' ends
\* the program, 's' writes tested.jpg, any key returns to the menu
ImgKey(shown) ==
    \E key \in {"q", "s", "other"} :
        /\ stage' = IF key = "q" THEN "exit" ELSE "menu"
        /\ files' = IF key = "s" THEN <<shown>> ELSE files

\* a menu choice calling the filter called name, which leaves r
MenuFilter(name, r) ==
    /\ stage = "menu"
    /\ choices < MaxChoices
    /\ choices' = choices + 1
    /\ op' = name
    /\ arg' = <<0, 1>>
    /\ ret' = r.ret
    /\ dst' = r.dst
    /\ before' = dst
    /\ given' = <<frame>>
    /\ held' = frame
    /\ frame' = putText(IF Accepted(r.ret) THEN copyTo(r.dst) ELSE frame)
    /\ ImgKey(putText(IF Accepted(r.ret) THEN copyTo(r.dst) ELSE frame))
    /\ UNCHANGED <<src, orig, sx, sy, flags, brightness>>
    /\ UNCHANGED timerVars

MenuGreyscale == MenuFilter("greyscale", greyscale(frame, dst))

MenuSepia == MenuFilter("sepiaTone", sepiaTone(frame, dst))

MenuBlur == MenuFilter("blur5x5_5", blur5x5_5(frame, dst))

MenuMagnitude ==
    \E g1 \in Garbage, g2 \in Garbage :
        MenuFilter("magnitudeSrc", magnitudeSrc(frame, dst, g1, g2))

MenuNegative == MenuFilter("negativeFilter", negativeFilter(frame, dst))

\* a choice that is none of 0..5: "Invalid choice."
MenuInvalid ==
    /\ stage = "menu"
    /\ choices < MaxChoices
    /\ choices' = choices + 1
    /\ held' = frame
    /\ frame' = putText(frame)
    /\ ImgKey(putText(frame))
    /\ UNCHANGED <<src, orig, dst, sx, sy, before, op, arg, ret, given>>
    /\ UNCHANGED <<flags, brightness>>
    /\ UNCHANGED timerVars

\* choice 0
MenuExit ==
    /\ stage = "menu"
    /\ stage' = "exit"
    /\ UNCHANGED <<src, orig, dst, sx, sy, before, op, arg, ret, given>>
    /\ UNCHANGED benchVars
    /\ UNCHANGED <<frame, held, flags, brightness, choices>>

NextImg ==
    \/ ImgRead
    \/ MenuGreyscale
    \/ MenuSepia
    \/ MenuBlur
    \/ MenuMagnitude
    \/ MenuNegative
    \/ MenuInvalid
    \/ MenuExit

SpecImg == InitImg /\ [][NextImg]_vars

\* ------------------------------------------------------------------------
\* vidDisplay.cpp: main captures frames, passes each through the filters
\* whose boolean is set, shows it and reads a key
\* ------------------------------------------------------------------------
\* what the camera delivers: a frame, or an empty matrix
VidFrames ==
    {Image(3, 3, 200, 7, 30, 37), Image(5, 5, 10, 0, 30, 37), EmptyMat}

BrightnessTenths == 8..12

Keys ==
    {"none", "q", "s", "g", "h", "p", "b", "x", "y", "m", "l", "f", "e", "n",
     "+", "-"}

\* cv::cvtColor(frame, frame, cv::COLOR_BGR2GRAY): one channel per pixel
cvtColorGray(m) ==
    MatOf(m.rows, m.cols, "8UC1",
          [i \in DOMAIN m.data |->
             <<(1868 * m.data[i][1] + 9617 * m.data[i][2] + 4899 * m.data[i][3]
                + 8192) \div 16384>>])

\* cv::convertScaleAbs(m, frame, 1, 0): the absolute value saturated to 8 bits
convertScaleAbs(m) ==
    MatOf(m.rows, m.cols, "8UC3",
          [i \in DOMAIN m.data |->
             [k \in 1..3 |->
                MinI(255, IF m.data[i][k] < 0 THEN -m.data[i][k] ELSE m.data[i][k])]])

RECURSIVE brightenBytes(_, _, _)
\* the loop of filter.cpp:698-708 over a matrix of one channel, from pixel n
\* on: dst.at<cv::Vec3b>(y, x)[0] is the byte 3 * x bytes into row y; the
\* bytes addressed beyond the end of the buffer are not part of the matrix
brightenBytes(m, n, f) ==
    IF n > m.rows * m.cols THEN m
    ELSE LET a == RowOf(m, n) * m.cols + 3 * ColOf(m, n) + 1
         IN  IF a <= m.rows * m.cols
             THEN brightenBytes(
                      [m EXCEPT !.data[a] = <<brightChannel(m.data[a][1], f)>>],
                      n + 1, f)
             ELSE brightenBytes(m, n + 1, f)

\* adjustBrightness called on a matrix of one channel
adjustBrightnessGray(s, d, f) ==
    IF empty(s) THEN [ret |-> -1, dst |-> d]
    ELSE [ret |-> 0, dst |-> brightenBytes(copyTo(s), 1, f)]

InitVid ==
    /\ src = EmptyMat
    /\ orig = EmptyMat
    /\ dst = EmptyMat
    /\ sx = EmptyMat
    /\ sy = EmptyMat
    /\ before = EmptyMat
    /\ op = "none"
    /\ arg = <<0, 1>>
    /\ ret = 0
    /\ given = << >>
    /\ NoBench
    /\ frame = EmptyMat
    /\ held = EmptyMat
    /\ stage = "open"
    /\ flags = NoFlags
    /\ brightness = 10
    /\ choices = 0

\* a step of the loop body that calls no filter: the matrices declared in
\* the blocks of the body are gone
NoCall ==
    /\ op' = "none"
    /\ arg' = <<0, 1>>
    /\ ret' = 0
    /\ dst' = EmptyMat
    /\ sx' = EmptyMat
    /\ sy' = EmptyMat
    /\ before' = EmptyMat
    /\ given' = << >>
    /\ UNCHANGED <<src, orig>>

\* vidDisplay.cpp:67-72
VidOpen ==
    /\ stage = "open"
    /\ stage' \in {"capture", "exit"}
    /\ NoCall
    /\ UNCHANGED benchVars
    /\ UNCHANGED <<frame, held, flags, brightness, choices>>

\* vidDisplay.cpp:118-123
Capture ==
    /\ stage = "capture"
    /\ frame' \in VidFrames
    /\ stage' = IF empty(frame') THEN "exit" ELSE "negative"
    /\ held' = frame
    /\ NoCall
    /\ UNCHANGED benchVars
    /\ UNCHANGED <<flags, brightness, choices>>

\* a step that, when its boolean is set, calls the filter called name with a
\* local destination and takes the destination as the frame when the status
\* is accepted
VidFilter(at, next, on, name, a, r) ==
    /\ stage = at
    /\ stage' = next
    /\ held' = frame
    /\ IF on
       THEN /\ op' = name
            /\ arg' = a
            /\ ret' = r.ret
            /\ dst' = r.dst
            /\ before' = EmptyMat
            /\ given' = <<frame>>
            /\ frame' = IF Accepted(r.ret) THEN r.dst ELSE frame
            /\ sx' = EmptyMat
            /\ sy' = EmptyMat
            /\ UNCHANGED <<src, orig>>
       ELSE NoCall /\ UNCHANGED frame
    /\ UNCHANGED benchVars
    /\ UNCHANGED <<flags, brightness, choices>>

\* a step that, when its boolean is set, calls sobelX3x3 and sobelY3x3 and,
\* when both are accepted, the filter called name on the pair
VidGradient(at, next, on, name) ==
    /\ stage = at
    /\ stage' = next
    /\ held' = frame
    /\ IF on
       THEN \E g1 \in Garbage, g2 \in Garbage :
              LET rx == sobelX3x3(frame, EmptyMat, g1)
                  ry == sobelY3x3(frame, EmptyMat, g2)
                  r  == IF name = "embossEffect"
                        THEN embossEffect(rx.dst, ry.dst, EmptyMat)
                        ELSE magnitude(rx.dst, ry.dst, EmptyMat)
              IN  /\ sx' = rx.dst
                  /\ sy' = ry.dst
                  /\ before' = EmptyMat
                  /\ IF Accepted(rx.ret) /\ Accepted(ry.ret)
                     THEN /\ op' = name
                          /\ ret' = r.ret
                          /\ dst' = r.dst
                          /\ given' = <<rx.dst, ry.dst>>
                          /\ frame' = IF Accepted(r.ret) THEN r.dst ELSE frame
                     ELSE /\ op' = "sobelY3x3"
                          /\ ret' = ry.ret
                          /\ dst' = EmptyMat
                          /\ given' = <<frame>>
                          /\ UNCHANGED frame
                  /\ arg' = <<0, 1>>
                  /\ UNCHANGED <<src, orig>>
       ELSE NoCall /\ UNCHANGED frame
    /\ UNCHANGED benchVars
    /\ UNCHANGED <<flags, brightness, choices>>

\* a step that, when its boolean is set, calls the sobel filter called name
\* and shows the absolute value of the gradient when the status is accepted
VidSobel(at, next, on, name) ==
    /\ stage = at
    /\ stage' = next
    /\ held' = frame
    /\ IF on
       THEN \E g \in Garbage :
              LET r == sobel(IF name = "sobelX3x3" THEN TapsSobelX ELSE TapsSobelY,
                             frame, EmptyMat, g)
              IN  /\ op' = name
                  /\ arg' = <<g, 1>>
                  /\ ret' = r.ret
                  /\ before' = EmptyMat
                  /\ given' = <<frame>>
                  /\ IF name = "sobelX3x3"
                     THEN sx' = r.dst /\ sy' = EmptyMat
                     ELSE sy' = r.dst /\ sx' = EmptyMat
                  /\ dst' = EmptyMat
                  /\ frame' = IF Accepted(r.ret) THEN convertScaleAbs(r.dst) ELSE frame
                  /\ UNCHANGED <<src, orig>>
       ELSE NoCall /\ UNCHANGED frame
    /\ UNCHANGED benchVars
    /\ UNCHANGED <<flags, brightness, choices>>

\* vidDisplay.cpp:126-134
VidNegative ==
    VidFilter("negative", "emboss", flags.negative, "negativeFilter", <<0, 1>>,
              negativeFilter(frame, EmptyMat))

\* vidDisplay.cpp:137-152
VidEmboss == VidGradient("emboss", "faceDetect", flags.emboss, "embossEffect")

\* vidDisplay.cpp:155-162: the frames of the model are smaller than the
\* window of the detector, no face is found and drawBoxes draws nothing
VidFaceDetect ==
    /\ stage = "faceDetect"
    /\ stage' = "blurQuantize"
    /\ held' = frame
    /\ NoCall
    /\ UNCHANGED benchVars
    /\ UNCHANGED <<frame, flags, brightness, choices>>

\* vidDisplay.cpp:165-174
VidBlurQuantize ==
    VidFilter("blurQuantize", "gradientMagnitude", flags.blurQuantized,
              "blurQuantize", <<10, 1>>, blurQuantize(frame, EmptyMat, 10))

\* vidDisplay.cpp:177-192
VidGradientMagnitude ==
    VidGradient("gradientMagnitude", "sobelX", flags.gradientMagnitude, "magnitude")

\* vidDisplay.cpp:195-204
VidSobelX == VidSobel("sobelX", "sobelY", flags.sobelX, "sobelX3x3")

\* vidDisplay.cpp:207-216
VidSobelY == VidSobel("sobelY", "gray", flags.sobelY, "sobelY3x3")

\* vidDisplay.cpp:219-222
VidGray ==
    /\ stage = "gray"
    /\ stage' = "altGray"
    /\ held' = frame
    /\ frame' = IF flags.gray THEN cvtColorGray(frame) ELSE frame
    /\ NoCall
    /\ UNCHANGED benchVars
    /\ UNCHANGED <<flags, brightness, choices>>

\* vidDisplay.cpp:225-233
VidAltGray ==
    VidFilter("altGray", "sepia", flags.altGray, "greyscale", <<0, 1>>,
              greyscale(frame, EmptyMat))

\* vidDisplay.cpp:236-244
VidSepia ==
    VidFilter("sepia", "blur", flags.sepia, "sepiaTone", <<0, 1>>,
              sepiaTone(frame, EmptyMat))

\* vidDisplay.cpp:247-255
VidBlur ==
    VidFilter("blur", "brighten", flags.blur, "blur5x5_4", <<0, 1>>,
              blur5x5_4(frame, EmptyMat))

\* vidDisplay.cpp:258-274: the brightness text, then adjustBrightness, which
\* addresses the frame as three-channel pixels: on the one-channel frame
\* cvtColor left the accesses are undefined, and the call either ends the
\* program or returns with the bytes of the matrix it reached scaled
VidBrighten ==
    /\ stage = "brighten"
    /\ held' = frame
    /\ op' = "adjustBrightness"
    /\ arg' = <<brightness, 10>>
    /\ given' = <<putText(frame)>>
    /\ before' = EmptyMat
    /\ LET r == IF frame.type = "8UC1"
                THEN adjustBrightnessGray(putText(frame), EmptyMat, <<brightness, 10>>)
                ELSE adjustBrightness(putText(frame), EmptyMat, <<brightness, 10>>)
       IN  \/ /\ stage' = "key"
              /\ ret' = r.ret
              /\ dst' = r.dst
              /\ frame' = IF Accepted(r.ret) THEN r.dst ELSE putText(frame)
           \/ /\ frame.type = "8UC1"
              /\ stage' = "crashed"
              /\ ret' = 0
              /\ dst' = EmptyMat
              /\ UNCHANGED frame
    /\ sx' = EmptyMat
    /\ sy' = EmptyMat
    /\ UNCHANGED <<src, orig>>
    /\ UNCHANGED benchVars
    /\ UNCHANGED <<flags, brightness, choices>>

\* the booleans that the key handlers of the filters clear
Exclusive ==
    {"gray", "altGray", "sepia", "blur", "sobelX", "sobelY",
     "gradientMagnitude", "blurQuantized", "emboss", "negative"}

\* a key handler: the boolean called name is inverted, those of cleared are
\* set to false
Toggled(f, name, cleared) ==
    [k \in DOMAIN f |->
       IF k = name THEN ~f[k] ELSE IF k \in cleared THEN FALSE ELSE f[k]]

\* vidDisplay.cpp:325-483
FlagsAfter(f, key) ==
    CASE key = "g" -> Toggled(f, "gray", Exclusive)
      [] key = "h" -> Toggled(f, "altGray", Exclusive)
      [] key = "p" -> Toggled(f, "sepia", Exclusive)
      [] key = "b" -> Toggled(f, "blur", Exclusive)
      [] key = "x" -> Toggled(f, "sobelX", Exclusive)
      [] key = "y" -> Toggled(f, "sobelY", Exclusive)
      [] key = "m" -> Toggled(f, "gradientMagnitude", Exclusive)
      [] key = "l" -> Toggled(f, "blurQuantized", Exclusive)
      [] key = "f" -> Toggled(f, "faceDetect", {})
      [] key = "e" -> Toggled(f, "emboss", Exclusive \ {"blurQuantized"})
      [] key = "n" -> Toggled(f, "negative", Exclusive)
      [] OTHER -> f

\* vidDisplay.cpp:276-497: the frame is shown and a key is read; the screen
\* capture 's' writes goes to a file named after the time of day, which the
\* program never reads and the state does not keep
VidKey ==
    /\ stage = "key"
    /\ held' = frame
    /\ \E key \in Keys :
          /\ key = "+" => brightness + 1 \in BrightnessTenths
          /\ key = "-" => brightness - 1 \in BrightnessTenths
          /\ stage' = IF key = "q" THEN "exit" ELSE "capture"
          /\ frame' = IF key = "s" THEN putText(frame) ELSE frame
          /\ flags' = FlagsAfter(flags, key)
          /\ brightness' = IF key = "+" THEN brightness + 1
                           ELSE IF key = "-" THEN brightness - 1
                           ELSE brightness
    /\ NoCall
    /\ UNCHANGED benchVars
    /\ UNCHANGED choices

NextVid ==
    \/ VidOpen
    \/ Capture
    \/ VidNegative
    \/ VidEmboss
    \/ VidFaceDetect
    \/ VidBlurQuantize
    \/ VidGradientMagnitude
    \/ VidSobelX
    \/ VidSobelY
    \/ VidGray
    \/ VidAltGray
    \/ VidSepia
    \/ VidBlur
    \/ VidBrighten
    \/ VidKey

SpecVid == InitVid /\ [][NextVid]_vars

\* either display program
SpecDisplay == (InitImg \/ InitVid) /\ [][NextImg \/ NextVid]_vars

\* what a display loop shows of the destination of the last call: the sobel
\* steps of the video loop show its absolute value, every other step shows
\* the destination itself
Shown ==
    IF op \in {"sobelX3x3", "sobelY3x3"} THEN convertScaleAbs(DstOf(op)) ELSE dst

\* C18: in the video loop and in the menu loop of the still image, after a
\* step that called a filter the frame is that filter's destination only
\* when the call returned 0; when the call returned another status the frame
\* is what it was before the call.
C18_FrameSwappedOnSuccess ==
    (stage \notin {"none", "crashed"} /\ op # "none") =>
        /\ ret # 0 => frame = held
        /\ frame # held => (ret = 0 /\ frame = Shown)
        /\ ret = 0 => frame = Shown

C18_Witness ==
    /\ stage = "emboss"
    /\ op = "negativeFilter" /\ ret = 0
    /\ held.data[1] = <<200, 237, 18>>
    /\ dst.data[1] = <<55, 18, 237>>
    /\ frame = dst

\* C21: at every interior pixel (2 <= x <= W-3, 2 <= y <= H-3) blur5x5_2
\* stores V(x,y) = floor((h(x,y-2) + 2 h(x,y-1) + 4 h(x,y) + 2 h(x,y+1)
\* + h(x,y+2)) / 10), h being the horizontal 1x5 sum of the source divided
\* by 10 and truncated: the divisor 10 is applied once per pass.
C21_TwoPassFormula ==
    LET h(y, x, k) ==
            (PixelAt(given[1], y, x - 2, k) + 2 * PixelAt(given[1], y, x - 1, k)
             + 4 * PixelAt(given[1], y, x, k) + 2 * PixelAt(given[1], y, x + 1, k)
             + PixelAt(given[1], y, x + 2, k)) \div 10
    IN  (op = "blur5x5_2" /\ ret = 0) =>
            \A y \in 2..(given[1].rows - 3) : \A x \in 2..(given[1].cols - 3) :
                \A k \in 1..3 :
                    PixelAt(dst, y, x, k) =
                        (h(y - 2, x, k) + 2 * h(y - 1, x, k) + 4 * h(y, x, k)
                         + 2 * h(y + 1, x, k) + h(y + 2, x, k)) \div 10

C21_Witness ==
    /\ op = "blur5x5_2" /\ ret = 0
    /\ given[1].rows = 5 /\ given[1].cols = 5
    /\ given[1].data[1] = <<200, 237, 18>> /\ given[1].data[6] = <<230, 11, 48>>
    /\ dst.data[13] = <<89, 72, 92>>

\* ------------------------------------------------------------------------
\* The pixel accesses of the convolution filters
\* ------------------------------------------------------------------------
\* the loops of a convolution filter over an image m: the rows and columns
\* its loop variables y and x run over, and the taps it evaluates at (y, x)
Passes(name, m) ==
    CASE name = "blur5x5_1" ->
           << [ys |-> 2..(m.rows - 3), xs |-> 2..(m.cols - 3), taps |-> Taps1] >>
      [] name = "blur5x5_2" ->
           << [ys |-> 0..(m.rows - 1), xs |-> 2..(m.cols - 3), taps |-> Taps2H],
              [ys |-> 2..(m.rows - 3), xs |-> 0..(m.cols - 1), taps |-> Taps2V] >>
      [] name = "blur5x5_3" ->
           << [ys |-> 2..(m.rows - 3), xs |-> 2..(m.cols - 3), taps |-> Taps3] >>
      [] name = "blur5x5_4" ->
           << [ys |-> 2..(m.rows - 3), xs |-> 2..(m.cols - 3), taps |-> Taps4] >>
      [] name = "blur5x5_5" ->
           << [ys |-> 0..(m.rows - 1), xs |-> 2..(m.cols - 3), taps |-> Taps5],
              [ys |-> 2..(m.rows - 3), xs |-> 0..(m.cols - 1), taps |-> Taps5] >>
      [] name = "gauss3x3at" ->
           << [ys |-> 1..(m.rows - 2), xs |-> 1..(m.cols - 2), taps |-> TapsGauss] >>
      [] name = "sobelX3x3" ->
           << [ys |-> 1..(m.rows - 2), xs |-> 1..(m.cols - 2), taps |-> TapsSobelX] >>
      [] name = "sobelY3x3" ->
           << [ys |-> 1..(m.rows - 2), xs |-> 1..(m.cols - 2), taps |-> TapsSobelY] >>

\* the <<row, column>> pairs a filter reads or writes on an image m: the
\* pixel (y, x) it stores and every tap (y + dy, x + dx) it evaluates
Accesses(name, m) ==
    UNION { UNION { {<<y, x>>} \cup
                    { <<y + Passes(name, m)[p].taps[n][1],
                        x + Passes(name, m)[p].taps[n][2]>> :
                      n \in DOMAIN Passes(name, m)[p].taps } :
                    <<y, x>> \in Passes(name, m)[p].ys \X Passes(name, m)[p].xs } :
            p \in DOMAIN Passes(name, m) }

\* C22: every pixel access of a convolution filter on a non-empty image has
\* its row index in [0, H) and its column index in [0, W).
C22_AccessesInside ==
    (op \in BlurOps \cup {"gauss3x3at", "sobelX3x3", "sobelY3x3"}
     /\ ~empty(given[1])) =>
        \A a \in Accesses(op, given[1]) :
            /\ a[1] >= 0 /\ a[1] < given[1].rows
            /\ a[2] >= 0 /\ a[2] < given[1].cols

\* ------------------------------------------------------------------------
\* The Sobel pair on the extreme 8-bit images: 3x3 images whose nine pixels
\* are black or white.  sx * sx + sy * sy is a convex function of the eight
\* neighbours of a pixel, so its maximum over all 8-bit images is taken where
\* every neighbour is 0 or 255.
\* ------------------------------------------------------------------------
ExtremeImages ==
    { MatOf(3, 3, "8UC3", [i \in 1..9 |-> <<v[i], v[i], v[i]>>]) :
      v \in [1..9 -> {0, 255}] }

InitSobel ==
    /\ src \in ExtremeImages
    /\ orig = src
    /\ dst = EmptyMat
    /\ sx = EmptyMat
    /\ sy = EmptyMat
    /\ before = dst
    /\ op = "none"
    /\ arg = <<0, 1>>
    /\ ret = 0
    /\ given = << >>
    /\ NoBench
    /\ NoDisplay

NextSobel == SobelX3x3 \/ SobelY3x3

SpecSobel == InitSobel /\ [][NextSobel]_vars

\* C23 as stated: at every interior pixel the per-channel Euclidean norm
\* sqrt(sx^2 + sy^2) of the Sobel pair is at most about 360 (below 361),
\* sobelY3x3(src, sy) having followed sobelX3x3(src, sx) on one source.
C23_NormAtMost360 ==
    (op = "sobelY3x3" /\ ret = 0 /\ ~empty(sx)) =>
        \A i \in InteriorIdx(sx, 1) : \A k \in 1..3 :
            sx.data[i][k] * sx.data[i][k] + sy.data[i][k] * sy.data[i][k]
                < 361 * 361

\* C23 amended: at every interior pixel the per-channel Euclidean norm of
\* the Sobel pair is at most sqrt(1020^2 + 510^2), about 1140.
C23_NormAtMost1140 ==
    (op = "sobelY3x3" /\ ret = 0 /\ ~empty(sx)) =>
        \A i \in InteriorIdx(sx, 1) : \A k \in 1..3 :
            sx.data[i][k] * sx.data[i][k] + sy.data[i][k] * sy.data[i][k]
                <= 1020 * 1020 + 510 * 510

\* the bound is met at the centre of a black-and-white image
C23_Witness ==
    /\ op = "sobelY3x3" /\ ret = 0 /\ ~empty(sx)
    /\ src.data[1] = <<0, 0, 0>> /\ src.data[2] = <<255, 255, 255>>
    /\ src.data[3] = <<255, 255, 255>> /\ src.data[9] = <<255, 255, 255>>
    /\ sx.data[5][1] * sx.data[5][1] + sy.data[5][1] * sy.data[5][1]
           = 1020 * 1020 + 510 * 510

\* C24: magnitude(src, dst) is the composition of the three gradient
\* filters: for non-empty src it returns the status and the destination of
\* magnitude(sobelX3x3(src), sobelY3x3(src), dst); for empty src both Sobel
\* calls fail, leave their buffers empty, and it returns -1.
C24_MagnitudeComposes ==
    (op = "magnitudeSrc") =>
        /\ ~empty(given[1]) =>
              \E g1 \in Garbage, g2 \in Garbage :
                 LET gx == sobelX3x3(given[1], EmptyMat, g1)
                     gy == sobelY3x3(given[1], EmptyMat, g2)
                 IN  /\ gx.ret = 0 /\ gy.ret = 0
                     /\ ret = magnitude(gx.dst, gy.dst, before).ret
                     /\ dst = magnitude(gx.dst, gy.dst, before).dst
        /\ empty(given[1]) =>
              /\ \A g \in Garbage :
                    /\ sobelX3x3(given[1], EmptyMat, g).ret = -1
                    /\ empty(sobelX3x3(given[1], EmptyMat, g).dst)
                    /\ sobelY3x3(given[1], EmptyMat, g).ret = -1
                    /\ empty(sobelY3x3(given[1], EmptyMat, g).dst)
              /\ ret = -1
              /\ dst = before

C24_Witness ==
    /\ op = "magnitudeSrc" /\ ret = 0
    /\ given[1].rows = 3 /\ given[1].cols = 3
    /\ dst.rows = 3 /\ dst.cols = 3 /\ dst.type = "8UC3"
    /\ dst.data[5] = <<240, 240, 16>>

\* C25: the image written for variant k is the destination its call
\* produces on the unchanged source, whatever the shared dst buffer held
\* before (nothing, a stale image, or the output of an earlier variant);
\* a written image is not touched again, and every call is given the image
\* that was read.
C25_WrittenFromSource ==
    /\ [](src = orig /\ (op \in BlurOps => given[1] = orig))
    /\ [][IF pc = "loop" /\ pc' = "stop"
          THEN \A b \in DstBuffers \cup {files[j] : j \in 1..(variant - 1)} :
                  files' = [files EXCEPT
                              ![variant] = BlurBy(BlurName(variant), orig, b).dst]
          ELSE files' = files]_vars

C25_Witness ==
    /\ pc = "exit" /\ variant = Variants
    /\ \E n \in DOMAIN events : events[n] = <<"imwrite", 1>>
    /\ \E n \in DOMAIN events : events[n] = <<"imwrite", Variants>>
    /\ files[Variants] = dst
    /\ files[Variants] = BlurBy("blur5x5_5", orig, files[4]).dst
    /\ files[Variants] # files[4]
    /\ files[2] # files[1]
    /\ src = orig

\* C26: in the video display loop, after any sequence of key presses, at
\* most one of the filter-mode flags gray, altGray, sepia, blur, sobelX,
\* sobelY, gradientMagnitude, blurQuantized, emboss and negative is true.
C26_AtMostOneFilter ==
    Cardinality({k \in Exclusive : flags[k]}) <= 1

\* C27: for a non-empty source with fewer than 5 rows or fewer than 5
\* columns each of blur5x5_1..blur5x5_5 returns 0 with a destination equal
\* to the source at every pixel.
C27_SmallImageCopied ==
    (op \in BlurOps /\ ~empty(given[1])
     /\ (given[1].rows < 5 \/ given[1].cols < 5)) =>
        (ret = 0 /\ dst = given[1])

\* C28: the interval timed for a variant contains only its N blur calls:
\* the end timestamp is taken after the N-th call and before the image is
\* written, so once the image of the running variant has been written its
\* end timestamp has been taken already (it lies after its start timestamp).
C28_EndTimeBeforeWrite ==
    (variant >= 1 /\ \E n \in DOMAIN events : events[n] = <<"imwrite", variant>>) =>
        (iter = Ntimes /\ endTime > startTime)

====
